---- MODULE Spec2Model ----
(***************************************************************************)
(* Vote operator service (src/index.js): the two class-based servers, the  *)
(* server without signer (lines 1-391) and the signature-verifying server  *)
(* (lines 487-995).  A request is a process whose steps are the segments   *)
(* of its handler between awaits; the votes table is the only shared       *)
(* mutable state.                                                          *)
(***************************************************************************)
EXTENDS Integers, Sequences, FiniteSets, TLC

(***************************************************************************)
(* Bounds of the model.                                                    *)
(***************************************************************************)
MaxInFlight == 2      \* requests being handled at the same time
MaxRequests == 2      \* requests received in one behaviour
MaxClock == 1         \* seconds the store's clock may advance

Slots == 1..MaxInFlight

(***************************************************************************)
(* JSON values as body-parser hands them to the handlers (JSON.parse of    *)
(* the request text).  An object keeps its keys in arrival order.  A       *)
(* number literal beyond the double range, such as 1e400, parses to        *)
(* Infinity: the value tagged "nonfinite".                                 *)
(***************************************************************************)
JNull == [t |-> "null"]
JUndefined == [t |-> "undefined"]
JNonFinite == [t |-> "nonfinite"]
JNum(n) == [t |-> "number", n |-> n]
JStr(s) == [t |-> "string", s |-> s]
JBool(b) == [t |-> "boolean", b |-> b]
JArr(el) == [t |-> "array", el |-> el]
JObj(kv) == [t |-> "object", kv |-> kv]

\* typeof data === "object" (null, arrays and objects)
TypeofObject(v) == v.t \in {"null", "array", "object"}

\* !data
Falsy(v) ==
  \/ v.t \in {"null", "undefined"}
  \/ v.t = "number" /\ v.n = 0
  \/ v.t = "string" /\ v.s = ""
  \/ v.t = "boolean" /\ ~v.b

(***************************************************************************)
(* JSON.stringify: the text as a sequence of tokens.  String literals      *)
(* carry their quotes; a non-finite number is written as null.             *)
(***************************************************************************)
Quote(s) ==
  CASE s = "a" -> "\"a\""
    [] s = "long" -> "\"long\""
    [] s = "b" -> "\"b\""
    [] s = "x" -> "\"x\""
    [] s = "" -> "\"\""
    [] OTHER -> "\"?\""

NumToken(n) ==
  CASE n = 0 -> "0"
    [] n = 1 -> "1"
    [] n = 2 -> "2"
    [] OTHER -> "9"

RECURSIVE Stringify(_)
RECURSIVE StringifyMembers(_, _)
RECURSIVE StringifyElements(_, _)

StringifyMembers(kv, i) ==
  IF i > Len(kv) THEN <<>>
  ELSE (IF i > 1 THEN <<",">> ELSE <<>>)
       \o <<Quote(kv[i][1]), ":">> \o Stringify(kv[i][2])
       \o StringifyMembers(kv, i + 1)

StringifyElements(el, i) ==
  IF i > Len(el) THEN <<>>
  ELSE (IF i > 1 THEN <<",">> ELSE <<>>)
       \o Stringify(el[i]) \o StringifyElements(el, i + 1)

Stringify(v) ==
  CASE v.t = "object" -> <<"{">> \o StringifyMembers(v.kv, 1) \o <<"}">>
    [] v.t = "array" -> <<"[">> \o StringifyElements(v.el, 1) \o <<"]">>
    [] v.t = "string" -> <<Quote(v.s)>>
    [] v.t = "number" -> <<NumToken(v.n)>>
    [] v.t = "boolean" -> <<IF v.b THEN "true" ELSE "false">>
    [] v.t = "nonfinite" -> <<"null">>
    [] OTHER -> <<"null">>

(***************************************************************************)
(* JSON.parse of a stored text: a recursive-descent reading of the tokens. *)
(* ParseValue returns the value and the index after it.                    *)
(***************************************************************************)
Unquote(tok) ==
  CASE tok = "\"a\"" -> "a"
    [] tok = "\"long\"" -> "long"
    [] tok = "\"b\"" -> "b"
    [] tok = "\"x\"" -> "x"
    [] tok = "\"\"" -> ""
    [] OTHER -> "?"

IsNumToken(tok) == tok \in {"0", "1", "2", "9"}

TokenNum(tok) ==
  CASE tok = "0" -> 0
    [] tok = "1" -> 1
    [] tok = "2" -> 2
    [] OTHER -> 9

RECURSIVE ParseValue(_, _)
RECURSIVE ParseMembers(_, _, _)
RECURSIVE ParseElements(_, _, _)

ParseMembers(toks, i, acc) ==
  IF toks[i] = "}" THEN [v |-> JObj(acc), i |-> i + 1]
  ELSE LET j == IF toks[i] = "," THEN i + 1 ELSE i
           val == ParseValue(toks, j + 2)
       IN ParseMembers(toks, val.i, Append(acc, <<Unquote(toks[j]), val.v>>))

ParseElements(toks, i, acc) ==
  IF toks[i] = "]" THEN [v |-> JArr(acc), i |-> i + 1]
  ELSE LET j == IF toks[i] = "," THEN i + 1 ELSE i
           val == ParseValue(toks, j)
       IN ParseElements(toks, val.i, Append(acc, val.v))

ParseValue(toks, i) ==
  LET tok == toks[i] IN
  CASE tok = "{" -> ParseMembers(toks, i + 1, <<>>)
    [] tok = "[" -> ParseElements(toks, i + 1, <<>>)
    [] tok = "null" -> [v |-> JNull, i |-> i + 1]
    [] tok = "true" -> [v |-> JBool(TRUE), i |-> i + 1]
    [] tok = "false" -> [v |-> JBool(FALSE), i |-> i + 1]
    [] IsNumToken(tok) -> [v |-> JNum(TokenNum(tok)), i |-> i + 1]
    [] OTHER -> [v |-> JStr(Unquote(tok)), i |-> i + 1]

JSONParse(toks) == ParseValue(toks, 1).v

(***************************************************************************)
(* Deep equality of two JSON values: objects by key set and per-key value  *)
(* (key order is not part of an object's value), arrays elementwise.       *)
(***************************************************************************)
Keys(kv) == {kv[i][1] : i \in 1..Len(kv)}

Lookup(kv, k) == kv[CHOOSE i \in 1..Len(kv) : kv[i][1] = k][2]

RECURSIVE DeepEqual(_, _)
DeepEqual(a, b) ==
  IF a.t # b.t THEN FALSE
  ELSE CASE a.t = "object" ->
              /\ Keys(a.kv) = Keys(b.kv)
              /\ \A k \in Keys(a.kv) : DeepEqual(Lookup(a.kv, k), Lookup(b.kv, k))
         [] a.t = "array" ->
              /\ Len(a.el) = Len(b.el)
              /\ \A i \in 1..Len(a.el) : DeepEqual(a.el[i], b.el[i])
         [] OTHER -> a = b

(***************************************************************************)
(* ethers.keccak256(ethers.toUtf8Bytes(text)): a digest computed from the  *)
(* text, token by token.  The digest is rendered as "0x" and 64 lowercase  *)
(* hex digits (32 bytes).  The digest space is cut to 2^24 so that TLC's   *)
(* integers hold it; NoCollision below checks that the cut maps no two     *)
(* texts of the model to one digest.                                       *)
(***************************************************************************)
DigestBytes == 32

HashMod == 2^24

Alphabet ==
  <<"{", "}", "[", "]", ":", ",", "null", "true", "false", "0", "1", "2", "9",
    "\"a\"", "\"b\"", "\"x\"", "\"\"", "\"?\"", "\"long\"">>

TokCode(tok) == CHOOSE i \in 1..Len(Alphabet) : Alphabet[i] = tok

RECURSIVE Absorb(_, _, _)
Absorb(toks, i, h) ==
  IF i > Len(toks) THEN h
  ELSE Absorb(toks, i + 1, (h * 31 + TokCode(toks[i])) % HashMod)

HexDigits == <<"0", "1", "2", "3", "4", "5", "6", "7",
               "8", "9", "a", "b", "c", "d", "e", "f">>

\* the hex digit of n at 16^e
HexDigitAt(n, e) == IF e >= 6 THEN "0" ELSE HexDigits[((n \div (16^e)) % 16) + 1]

Hexlify(n) ==
  <<"0", "x">> \o [i \in 1..(2 * DigestBytes) |-> HexDigitAt(n, 2 * DigestBytes - i)]

Keccak256(toks) == Hexlify(Absorb(toks, 1, 7))

(***************************************************************************)
(* ethers.isHexString(value, length) and ethers.getBytes(hex).             *)
(***************************************************************************)
UpperHexDigits == {"A", "B", "C", "D", "E", "F"}

IsHexChar(c) == c \in {HexDigits[i] : i \in 1..16} \cup UpperHexDigits

HexCharValue(c) ==
  CASE c \in {"a", "A"} -> 10
    [] c \in {"b", "B"} -> 11
    [] c \in {"c", "C"} -> 12
    [] c \in {"d", "D"} -> 13
    [] c \in {"e", "E"} -> 14
    [] c \in {"f", "F"} -> 15
    [] OTHER -> (CHOOSE i \in 1..10 : HexDigits[i] = c) - 1

\* (mutant) ethers.isHexString(value): the length is not checked
IsHexStringAnyLength(value, length) ==
  /\ Len(value) >= 2
  /\ value[1] = "0"
  /\ value[2] = "x"
  /\ \A i \in 3..Len(value) : IsHexChar(value[i])

\* value.match(/^0x[0-9A-Fa-f]*$/) and value.length === 2 + 2 * length
IsHexStringOfLength(value, length) ==
  /\ Len(value) >= 2
  /\ value[1] = "0"
  /\ value[2] = "x"
  /\ \A i \in 3..Len(value) : IsHexChar(value[i])
  /\ Len(value) = 2 + 2 * length

\* the bytes a hex string stands for, as a number of the digest space (its
\* low 24 bits: the last six digits)
GetBytes(hex) ==
  LET digit(k) == HexCharValue(hex[Len(hex) - k])
  IN digit(0) + 16 * digit(1) + (16^2) * digit(2) + (16^3) * digit(3)
     + (16^4) * digit(4) + (16^5) * digit(5)

(***************************************************************************)
(* Keys, addresses and signatures (ethers.Wallet, signMessage,             *)
(* verifyMessage, isAddress).  A signature value of a request is absent,   *)
(* the empty string, not a string, a string that is not hex, a hex string  *)
(* of the wrong length, a 65-byte hex string with an unrecoverable v, or a *)
(* recoverable signature made by a key over a 32-byte message.             *)
(***************************************************************************)
OperatorKey == "operator"

CallerKeys == {"alice", "bob"}

Address(key) == [owner |-> key, case |-> "checksum"]

ToLowerCase(addr) == [addr EXCEPT !.case = "lower"]

NoAddress == [owner |-> "none", case |-> "none"]

BadAddress == [owner |-> "none", case |-> "invalid"]

\* signer && ...
AddressGiven(addr) == addr # NoAddress

IsAddress(addr) == addr.case \in {"checksum", "lower"}

SignMessage(key, bytes) == [form |-> "sig", key |-> key, msg |-> bytes]

Malformed(form) == [form |-> form, key |-> "none", msg |-> 0]

NoSignature == Malformed("undefined")

\* signature && ...
SignatureGiven(sig) == sig.form \notin {"undefined", "empty"}

\* typeof signature === "string"
IsString(sig) == sig.form # "nonstring"

\* ethers.isHexString(signature)
IsHexString(sig) == sig.form \in {"shorthex", "badv", "sig"}

\* ethers.verifyMessage(bytes, signature): throws on a signature that is not
\* a recoverable 65-byte one; recovers the signing key's address when the
\* signature was made over these bytes, and an unrelated address otherwise.
VerifyMessage(bytes, sig) ==
  IF sig.form # "sig" THEN [threw |-> TRUE, address |-> NoAddress]
  ELSE IF sig.msg = bytes THEN [threw |-> FALSE, address |-> Address(sig.key)]
  ELSE [threw |-> FALSE, address |-> Address("stranger")]

(***************************************************************************)
(* State.                                                                  *)
(*   proc     the server process: where it is in its start-up, the         *)
(*            OPERATOR_PRIVATE_KEY of its environment, how far              *)
(*            initializeDatabase has come, whether the votes table exists  *)
(*   variant  which server is deployed: "noSigner" or "verifying"          *)
(*   wallet   the operator's key and address, set by initializeWallet       *)
(*   votes    the rows of the votes table                                  *)
(*   clock    the store's CURRENT_TIMESTAMP, in seconds                    *)
(*   dbUp     whether the store answers statements                         *)
(*   req      per slot, the request being handled and its handler's locals *)
(*   nreq     requests received so far                                     *)
(*   resp     the response sent last, with the request it answers          *)
(*   created  per id, the bodies of the Create requests answered 201       *)
(***************************************************************************)
VARIABLES proc, variant, wallet, votes, clock, dbUp, req, nreq, resp, created

vars == <<proc, variant, wallet, votes, clock, dbUp, req, nreq, resp, created>>

Idle == [pc |-> "idle"]

\* new ethers.Wallet(privateKey)
NewWallet(privateKey) == [privateKey |-> privateKey, address |-> Address(privateKey)]

NoResponse == [kind |-> "none"]

Variants == {"noSigner", "verifying"}

\* the process after a start-up that succeeded: listening, the table created
Running ==
  [pc |-> "listening", privateKey |-> OperatorKey, init |-> "done", table |-> TRUE]

Init ==
  /\ proc = Running
  /\ variant \in Variants
  /\ wallet = NewWallet(OperatorKey)
  /\ votes = {}
  /\ clock = 0
  /\ dbUp = TRUE
  /\ req = [s \in Slots |-> Idle]
  /\ nreq = 0
  /\ resp = NoResponse
  /\ created = <<>>

\* the slot an arriving request is handled in
FreeSlot(s) ==
  /\ proc.pc = "listening"
  /\ req[s] = Idle
  /\ \A r \in Slots : r < s => req[r] # Idle
  /\ nreq < MaxRequests

\* res.status(status).json(...): the slot's request is answered
Send(s, event) ==
  /\ resp' = event
  /\ req' = [req EXCEPT ![s] = Idle]

(***************************************************************************)
(* validateVoteData, the middleware of POST /votes and /verify-signature.  *)
(* The result is the error code sent, or "next".                           *)
(***************************************************************************)
MaxDataLength == 1000000

TokLen(tok) ==
  CASE tok = "\"long\"" -> MaxDataLength + 2
    [] tok \in {"null", "true"} -> 4
    [] tok = "false" -> 5
    [] tok \in {"\"a\"", "\"b\"", "\"x\"", "\"?\""} -> 3
    [] tok = "\"\"" -> 2
    [] OTHER -> 1

RECURSIVE TextLength(_, _)
TextLength(toks, i) ==
  IF i > Len(toks) THEN 0 ELSE TokLen(toks[i]) + TextLength(toks, i + 1)

ValidateVoteDataNoSigner(body) ==
  IF Falsy(body.data) THEN "MISSING_DATA"
  ELSE IF ~TypeofObject(body.data) THEN "INVALID_DATA_TYPE"
  ELSE IF TextLength(Stringify(body.data), 1) > MaxDataLength THEN "DATA_TOO_LARGE"
  ELSE "next"

ValidateVoteDataVerifying(body) ==
  IF Falsy(body.data) THEN "MISSING_DATA"
  ELSE IF ~TypeofObject(body.data) THEN "INVALID_DATA_TYPE"
  ELSE IF SignatureGiven(body.signature) /\ ~IsString(body.signature)
    THEN "INVALID_SIGNATURE_TYPE"
  ELSE IF SignatureGiven(body.signature) /\ ~IsHexString(body.signature)
    THEN "INVALID_SIGNATURE_FORMAT"
  ELSE IF AddressGiven(body.signer) /\ ~IsAddress(body.signer)
    THEN "INVALID_SIGNER_ADDRESS"
  ELSE "next"

ValidateVoteData(body) ==
  IF variant = "noSigner" THEN ValidateVoteDataNoSigner(body)
  ELSE ValidateVoteDataVerifying(body)

(***************************************************************************)
(* validateSignature(data, signature, expectedSigner)                      *)
(***************************************************************************)
\* (mutant) the recovered address is not compared with the expected signer
ValidateSignatureAnySigner(data, signature, expectedSigner) ==
  LET recovered == VerifyMessage(GetBytes(Keccak256(Stringify(data))), signature)
  IN IF recovered.threw
       THEN [isValid |-> FALSE, error |-> "Signature verification failed",
             recoveredSigner |-> NoAddress]
     ELSE [isValid |-> TRUE, error |-> "none", recoveredSigner |-> recovered.address]

\* (mutant) the addresses are compared as written, without toLowerCase()
ValidateSignatureCaseSensitive(data, signature, expectedSigner) ==
  LET recovered == VerifyMessage(GetBytes(Keccak256(Stringify(data))), signature)
  IN IF recovered.threw
       THEN [isValid |-> FALSE, error |-> "Signature verification failed",
             recoveredSigner |-> NoAddress]
     ELSE IF AddressGiven(expectedSigner) /\ recovered.address # expectedSigner
       THEN [isValid |-> FALSE, error |-> "Signature does not match expected signer",
             recoveredSigner |-> recovered.address]
     ELSE [isValid |-> TRUE, error |-> "none", recoveredSigner |-> recovered.address]

ValidateSignature(data, signature, expectedSigner) ==
  LET dataString == Stringify(data)
      messageHash == Keccak256(dataString)
      recovered == VerifyMessage(GetBytes(messageHash), signature)
  IN IF recovered.threw
       THEN [isValid |-> FALSE, error |-> "Signature verification failed",
             recoveredSigner |-> NoAddress]
     ELSE IF /\ AddressGiven(expectedSigner)
             /\ ToLowerCase(recovered.address) # ToLowerCase(expectedSigner)
       THEN [isValid |-> FALSE, error |-> "Signature does not match expected signer",
             recoveredSigner |-> recovered.address]
     ELSE [isValid |-> TRUE, error |-> "none", recoveredSigner |-> recovered.address]

(***************************************************************************)
(* The store: mysql2's db.execute on the votes table.  id is the primary   *)
(* key; created_at defaults to CURRENT_TIMESTAMP.  String comparison in    *)
(* the key follows the table's default collation, which ignores case.      *)
(***************************************************************************)
ToLowerChar(c) ==
  CASE c = "A" -> "a"
    [] c = "B" -> "b"
    [] c = "C" -> "c"
    [] c = "D" -> "d"
    [] c = "E" -> "e"
    [] c = "F" -> "f"
    [] c = "X" -> "x"
    [] OTHER -> c

Collate(str) == [i \in 1..Len(str) |-> ToLowerChar(str[i])]

SameKey(a, b) == Collate(a) = Collate(b)

Ok(rows) == [err |-> "none", rows |-> rows]

Failed(code) == [err |-> code, rows |-> <<>>]

\* (mutant) an INSERT into a table without the primary key
InsertRowNoKey(table, row, now) ==
  [result |-> Ok(<<>>), votes |-> table \cup {row @@ [created_at |-> now]}]

\* (mutant) REPLACE INTO votes: the last write wins
InsertRowReplace(table, row, now) ==
  [result |-> Ok(<<>>),
   votes |-> {r \in table : ~SameKey(r.id, row.id)} \cup {row @@ [created_at |-> now]}]

\* (mutant) an INSERT that stores the row and then reports a failure
InsertRowThenFail(table, row, now) ==
  IF \E r \in table : SameKey(r.id, row.id)
    THEN [result |-> Failed("ER_DUP_ENTRY"), votes |-> table]
  ELSE [result |-> Failed("ECONNREFUSED"),
        votes |-> table \cup {row @@ [created_at |-> now]}]

\* INSERT INTO votes (...) VALUES (...): the primary key decides, in one step
InsertRow(table, row, now) ==
  IF \E r \in table : SameKey(r.id, row.id)
    THEN [result |-> Failed("ER_DUP_ENTRY"), votes |-> table]
  ELSE [result |-> Ok(<<>>),
        votes |-> table \cup {row @@ [created_at |-> now]}]

\* (mutant) SELECT * FROM votes: the WHERE clause is dropped
SelectByIdAnyRow(table, id) ==
  IF table # {} THEN Ok(<<CHOOSE r \in table : TRUE>>) ELSE Ok(<<>>)

\* SELECT * FROM votes WHERE id = ?
SelectById(table, id) ==
  IF \E r \in table : SameKey(r.id, id)
    THEN Ok(<<CHOOSE r \in table : SameKey(r.id, id)>>)
  ELSE Ok(<<>>)

\* the orders ORDER BY created_at DESC may return the rows in: rows of one
\* second come in any order
Orderings(table) ==
  {sq \in [1..Cardinality(table) -> table] :
     /\ \A i, j \in 1..Cardinality(table) : i # j => sq[i] # sq[j]
     /\ \A i, j \in 1..Cardinality(table) :
          i < j => sq[i].created_at >= sq[j].created_at}

Min(a, b) == IF a < b THEN a ELSE b

\* (mutant) ... LIMIT ?: the OFFSET is dropped
SelectPageNoOffset(table, limit, offset) ==
  IF limit < 0 \/ offset < 0 THEN {Failed("ER_WRONG_ARGUMENTS")}
  ELSE {Ok([i \in 1..Min(limit, Len(sq)) |->
              [id |-> sq[i].id, created_at |-> sq[i].created_at]])
          : sq \in Orderings(table)}

\* SELECT id, created_at FROM votes ORDER BY created_at DESC LIMIT ? OFFSET ?
SelectPage(table, limit, offset) ==
  IF limit < 0 \/ offset < 0 THEN {Failed("ER_WRONG_ARGUMENTS")}
  ELSE {Ok([i \in 1..(Min(offset + limit, Len(sq)) - Min(offset, Len(sq))) |->
              [id |-> sq[offset + i].id, created_at |-> sq[offset + i].created_at]])
          : sq \in Orderings(table)}

\* (mutant) a SELECT by id that removes the row it returns
OutcomesConsuming(stmt) ==
  IF ~dbUp THEN {[result |-> Failed("ECONNREFUSED"), votes |-> votes]}
  ELSE IF ~proc.table /\ stmt.op \in {"insert", "select", "page"}
    THEN {[result |-> Failed("ER_NO_SUCH_TABLE"), votes |-> votes]}
  ELSE CASE stmt.op = "insert" -> {InsertRow(votes, stmt.row, clock)}
         [] stmt.op = "select" ->
              {[result |-> SelectById(votes, stmt.id),
                votes |-> {r \in votes : ~SameKey(r.id, stmt.id)}]}
         [] stmt.op = "page" ->
              {[result |-> r, votes |-> votes] :
                 r \in SelectPage(votes, stmt.limit, stmt.offset)}
         [] OTHER -> {[result |-> Ok(<<1>>), votes |-> votes]}

\* what the store may answer to a statement, and the table it leaves
Outcomes(stmt) ==
  IF ~dbUp THEN {[result |-> Failed("ECONNREFUSED"), votes |-> votes]}
  ELSE IF ~proc.table /\ stmt.op \in {"insert", "select", "page"}
    THEN {[result |-> Failed("ER_NO_SUCH_TABLE"), votes |-> votes]}
  ELSE CASE stmt.op = "insert" -> {InsertRow(votes, stmt.row, clock)}
         [] stmt.op = "select" -> {[result |-> SelectById(votes, stmt.id), votes |-> votes]}
         [] stmt.op = "page" ->
              {[result |-> r, votes |-> votes] :
                 r \in SelectPage(votes, stmt.limit, stmt.offset)}
         [] OTHER -> {[result |-> Ok(<<1>>), votes |-> votes]}

\* the store executes the statement a handler awaits
DbExecute(s) ==
  /\ req[s].pc = "awaitDb"
  /\ \E out \in Outcomes(req[s].stmt) :
       /\ votes' = out.votes
       /\ req' = [req EXCEPT ![s] = [pc |-> "dbDone", result |-> out.result] @@ @]
  /\ UNCHANGED <<proc, variant, wallet, clock, dbUp, nreq, resp, created>>

\* the store's clock advances
Tick ==
  /\ clock < MaxClock
  /\ clock' = clock + 1
  /\ UNCHANGED <<proc, variant, wallet, votes, dbUp, req, nreq, resp, created>>

\* the store becomes unreachable, or reachable again
DbDown ==
  /\ dbUp
  /\ dbUp' = FALSE
  /\ UNCHANGED <<proc, variant, wallet, votes, clock, req, nreq, resp, created>>

DbBack ==
  /\ ~dbUp
  /\ dbUp' = TRUE
  /\ UNCHANGED <<proc, variant, wallet, votes, clock, req, nreq, resp, created>>

(***************************************************************************)
(* POST /votes: validateVoteData, then handleCreateVote.  The handler      *)
(* awaits validateSignature (verifying server), wallet.signMessage and     *)
(* db.execute; each action below is one segment between awaits.            *)
(***************************************************************************)
CreateError(body, id, status, code) ==
  [kind |-> "create", status |-> status, code |-> code, body |-> body, id |-> id]

\* this.wallet.signMessage(ethers.getBytes(id))
OperatorSign(id) == SignMessage(wallet.privateKey, GetBytes(id))

\* (mutant) the data column receives the text of the wrapping object, not
\* the text the id was derived from
InsertStatementWrapped(r) ==
  [op |-> "insert",
   row |-> [id |-> r.id, data |-> Stringify(JObj(<< <<"x", r.body.data>> >>)),
            signature |-> r.operatorSignature, signer |-> NoAddress]]

\* (mutant) the signature column receives the caller's signature
InsertStatementCallerSignature(r) ==
  [op |-> "insert",
   row |-> [id |-> r.id, data |-> r.dataString, signature |-> r.body.signature,
            signer |-> NoAddress]]

\* the parameters of the INSERT
InsertStatement(r) ==
  IF variant = "noSigner"
    THEN [op |-> "insert",
          row |-> [id |-> r.id, data |-> r.dataString, signature |-> r.operatorSignature]]
  ELSE [op |-> "insert",
        row |-> [id |-> r.id, data |-> r.dataString, signature |-> r.operatorSignature,
                 signer |-> r.signerAddress]]

\* (mutant) the verifying server signs and inserts a request that carries no
\* signature
ReceiveCreateUnsigned(s, body) ==
  /\ FreeSlot(s)
  /\ nreq' = nreq + 1
  /\ LET dataString == Stringify(body.data)
         id == Keccak256(dataString)
         locals == [kind |-> "create", body |-> body, dataString |-> dataString, id |-> id]
     IN IF ValidateVoteData(body) # "next"
          THEN Send(s, CreateError(body, <<>>, 400, ValidateVoteData(body)))
        ELSE IF variant = "noSigner" \/ ~SignatureGiven(body.signature)
          THEN /\ req' = [req EXCEPT ![s] =
                            [pc |-> "awaitSign", operatorSignature |-> OperatorSign(id),
                             signerAddress |-> NoAddress,
                             validationResult |-> [isValid |-> TRUE]]
                            @@ locals]
               /\ resp' = resp
        ELSE /\ req' = [req EXCEPT ![s] =
                          [pc |-> "awaitValidate",
                           validationResult |->
                             ValidateSignature(body.data, body.signature, body.signer)]
                          @@ locals]
             /\ resp' = resp
  /\ UNCHANGED <<proc, variant, wallet, votes, clock, dbUp, created>>

ReceiveCreate(s, body) ==
  /\ FreeSlot(s)
  /\ nreq' = nreq + 1
  /\ LET dataString == Stringify(body.data)
         id == Keccak256(dataString)
         locals == [kind |-> "create", body |-> body, dataString |-> dataString, id |-> id]
     IN IF ValidateVoteData(body) # "next"
          THEN Send(s, CreateError(body, <<>>, 400, ValidateVoteData(body)))
        ELSE IF variant = "noSigner"
          THEN /\ req' = [req EXCEPT ![s] =
                            [pc |-> "awaitSign", operatorSignature |-> OperatorSign(id)]
                            @@ locals]
               /\ resp' = resp
        ELSE IF SignatureGiven(body.signature)
          THEN /\ req' = [req EXCEPT ![s] =
                            [pc |-> "awaitValidate",
                             validationResult |->
                               ValidateSignature(body.data, body.signature, body.signer)]
                            @@ locals]
               /\ resp' = resp
        ELSE Send(s, CreateError(body, id, 400, "INVALID_SIGNATURE"))
  /\ UNCHANGED <<proc, variant, wallet, votes, clock, dbUp, created>>

\* (mutant) the signer column receives the address the request claims
AfterValidateSignatureClaimed(s) ==
  /\ req[s].pc = "awaitValidate"
  /\ req[s].kind = "create"
  /\ IF ~req[s].validationResult.isValid
       THEN Send(s, CreateError(req[s].body, req[s].id, 400, "INVALID_SIGNATURE"))
     ELSE /\ req' = [req EXCEPT ![s] =
                       [pc |-> "awaitSign",
                        signerAddress |-> req[s].body.signer,
                        operatorSignature |-> OperatorSign(req[s].id)] @@ @]
          /\ resp' = resp
  /\ UNCHANGED <<proc, variant, wallet, votes, clock, dbUp, nreq, created>>

AfterValidateSignature(s) ==
  /\ req[s].pc = "awaitValidate"
  /\ req[s].kind = "create"
  /\ IF ~req[s].validationResult.isValid
       THEN Send(s, CreateError(req[s].body, req[s].id, 400, "INVALID_SIGNATURE"))
     ELSE /\ req' = [req EXCEPT ![s] =
                       [pc |-> "awaitSign",
                        signerAddress |-> req[s].validationResult.recoveredSigner,
                        operatorSignature |-> OperatorSign(req[s].id)] @@ @]
          /\ resp' = resp
  /\ UNCHANGED <<proc, variant, wallet, votes, clock, dbUp, nreq, created>>

AfterSignMessage(s) ==
  /\ req[s].pc = "awaitSign"
  /\ req' = [req EXCEPT ![s] = [pc |-> "awaitDb", stmt |-> InsertStatement(req[s])] @@ @]
  /\ UNCHANGED <<proc, variant, wallet, votes, clock, dbUp, nreq, resp, created>>

\* (mutant) the 201 body returns the caller's signature
CreatedResponseCallerSignature(r) ==
  [kind |-> "create", status |-> 201, code |-> "created", body |-> r.body,
   id |-> r.id, signature |-> r.body.signature, signer |-> r.body.signer,
   operator |-> wallet.address]

\* the 201 body: {id, signature, signer, operator}
CreatedResponse(r) ==
  IF variant = "noSigner"
    THEN [kind |-> "create", status |-> 201, code |-> "created", body |-> r.body,
          id |-> r.id, signature |-> r.operatorSignature, operator |-> wallet.address]
  ELSE [kind |-> "create", status |-> 201, code |-> "created", body |-> r.body,
        id |-> r.id, signature |-> r.operatorSignature, signer |-> r.signerAddress,
        operator |-> wallet.address]

Record(log, id, body) ==
  IF id \in DOMAIN log THEN [log EXCEPT ![id] = Append(@, body)]
  ELSE log @@ (id :> <<body>>)

\* (mutant) the catch branch does not look at error.code
RespondCreateGeneric(s) ==
  /\ req[s].pc = "dbDone"
  /\ req[s].kind = "create"
  /\ IF req[s].result.err = "none"
       THEN /\ Send(s, CreatedResponse(req[s]))
            /\ created' = Record(created, req[s].id, req[s].body)
     ELSE /\ Send(s, CreateError(req[s].body, req[s].id, 500, "INTERNAL_ERROR"))
          /\ created' = created
  /\ UNCHANGED <<proc, variant, wallet, votes, clock, dbUp, nreq>>

RespondCreate(s) ==
  /\ req[s].pc = "dbDone"
  /\ req[s].kind = "create"
  /\ IF req[s].result.err = "none"
       THEN /\ Send(s, CreatedResponse(req[s]))
            /\ created' = Record(created, req[s].id, req[s].body)
     ELSE IF req[s].result.err = "ER_DUP_ENTRY"
       THEN /\ Send(s, CreateError(req[s].body, req[s].id, 409, "DUPLICATE_VOTE"))
            /\ created' = created
     ELSE /\ Send(s, CreateError(req[s].body, req[s].id, 500, "INTERNAL_ERROR"))
          /\ created' = created
  /\ UNCHANGED <<proc, variant, wallet, votes, clock, dbUp, nreq>>

(***************************************************************************)
(* GET /votes/:id: handleGetVote.                                          *)
(***************************************************************************)
GetError(id, status, code) ==
  [kind |-> "get", status |-> status, code |-> code, id |-> id]

\* the 200 body: {id, data, signature, signer, createdAt}
VoteResponse(id, vote) ==
  IF variant = "noSigner"
    THEN [kind |-> "get", status |-> 200, code |-> "ok", id |-> id,
          data |-> [id |-> vote.id, data |-> JSONParse(vote.data),
                    signature |-> vote.signature, createdAt |-> vote.created_at]]
  ELSE [kind |-> "get", status |-> 200, code |-> "ok", id |-> id,
        data |-> [id |-> vote.id, data |-> JSONParse(vote.data),
                  signature |-> vote.signature, signer |-> vote.signer,
                  createdAt |-> vote.created_at]]

ReceiveGet(s, id) ==
  /\ FreeSlot(s)
  /\ nreq' = nreq + 1
  /\ IF id = <<>> \/ ~IsHexStringOfLength(id, DigestBytes)
       THEN Send(s, GetError(id, 400, "INVALID_ID"))
     ELSE /\ req' = [req EXCEPT ![s] =
                       [pc |-> "awaitDb", kind |-> "get", id |-> id,
                        stmt |-> [op |-> "select", id |-> id]]]
          /\ resp' = resp
  /\ UNCHANGED <<proc, variant, wallet, votes, clock, dbUp, created>>

\* (mutant) the handler returns without a response when no row was found
RespondGetSilent(s) ==
  /\ req[s].pc = "dbDone"
  /\ req[s].kind = "get"
  /\ IF req[s].result.err # "none"
       THEN Send(s, GetError(req[s].id, 500, "INTERNAL_ERROR"))
     ELSE IF Len(req[s].result.rows) = 0
       THEN req' = [req EXCEPT ![s] = Idle] /\ resp' = resp
     ELSE Send(s, VoteResponse(req[s].id, req[s].result.rows[1]))
  /\ UNCHANGED <<proc, variant, wallet, votes, clock, dbUp, nreq, created>>

RespondGet(s) ==
  /\ req[s].pc = "dbDone"
  /\ req[s].kind = "get"
  /\ IF req[s].result.err # "none"
       THEN Send(s, GetError(req[s].id, 500, "INTERNAL_ERROR"))
     ELSE IF Len(req[s].result.rows) = 0
       THEN Send(s, GetError(req[s].id, 404, "VOTE_NOT_FOUND"))
     ELSE Send(s, VoteResponse(req[s].id, req[s].result.rows[1]))
  /\ UNCHANGED <<proc, variant, wallet, votes, clock, dbUp, nreq, created>>

(***************************************************************************)
(* GET /votes: handleGetAllVotes.  A query parameter is absent, text that  *)
(* parseInt reads no number from (both NaN), or an integer.                *)
(***************************************************************************)
DefaultLimit == 10

MaxLimit == 100

NaN == [t |-> "NaN"]

QInt(n) == [t |-> "int", n |-> n]

\* parseInt(param) || fallback
ParseIntOr(param, fallback) ==
  IF param.t = "NaN" \/ param.n = 0 THEN fallback ELSE param.n

ReceiveList(s, query) ==
  /\ FreeSlot(s)
  /\ nreq' = nreq + 1
  /\ LET limit == Min(ParseIntOr(query.limit, DefaultLimit), MaxLimit)
         offset == ParseIntOr(query.offset, 0)
     IN req' = [req EXCEPT ![s] =
                  [pc |-> "awaitDb", kind |-> "list", query |-> query,
                   limit |-> limit, offset |-> offset,
                   stmt |-> [op |-> "page", limit |-> limit, offset |-> offset]]]
  /\ UNCHANGED <<proc, variant, wallet, votes, clock, dbUp, resp, created>>

RespondList(s) ==
  /\ req[s].pc = "dbDone"
  /\ req[s].kind = "list"
  /\ IF req[s].result.err # "none"
       THEN Send(s, [kind |-> "list", status |-> 500, code |-> "INTERNAL_ERROR",
                     query |-> req[s].query])
     ELSE Send(s, [kind |-> "list", status |-> 200, code |-> "ok",
                   query |-> req[s].query, data |-> req[s].result.rows,
                   pagination |-> [limit |-> req[s].limit, offset |-> req[s].offset,
                                   count |-> Len(req[s].result.rows)]])
  /\ UNCHANGED <<proc, variant, wallet, votes, clock, dbUp, nreq, created>>

(***************************************************************************)
(* POST /verify-signature (verifying server): validateVoteData, then       *)
(* handleVerifySignature.                                                  *)
(***************************************************************************)
VerifyError(body, status, code) ==
  [kind |-> "verify", status |-> status, code |-> code, body |-> body]

\* (mutant) the handler does not pass the expected signer on
ReceiveVerifyNoSigner(s, body) ==
  /\ variant = "verifying"
  /\ FreeSlot(s)
  /\ nreq' = nreq + 1
  /\ IF ValidateVoteData(body) # "next"
       THEN Send(s, VerifyError(body, 400, ValidateVoteData(body)))
     ELSE IF ~SignatureGiven(body.signature)
       THEN Send(s, VerifyError(body, 400, "MISSING_SIGNATURE"))
     ELSE /\ req' = [req EXCEPT ![s] =
                       [pc |-> "awaitValidate", kind |-> "verify", body |-> body,
                        validationResult |->
                          ValidateSignature(body.data, body.signature, NoAddress)]]
          /\ resp' = resp
  /\ UNCHANGED <<proc, variant, wallet, votes, clock, dbUp, created>>

ReceiveVerify(s, body) ==
  /\ variant = "verifying"
  /\ FreeSlot(s)
  /\ nreq' = nreq + 1
  /\ IF ValidateVoteData(body) # "next"
       THEN Send(s, VerifyError(body, 400, ValidateVoteData(body)))
     ELSE IF ~SignatureGiven(body.signature)
       THEN Send(s, VerifyError(body, 400, "MISSING_SIGNATURE"))
     ELSE /\ req' = [req EXCEPT ![s] =
                       [pc |-> "awaitValidate", kind |-> "verify", body |-> body,
                        validationResult |->
                          ValidateSignature(body.data, body.signature, body.signer)]]
          /\ resp' = resp
  /\ UNCHANGED <<proc, variant, wallet, votes, clock, dbUp, created>>

RespondVerify(s) ==
  /\ req[s].pc = "awaitValidate"
  /\ req[s].kind = "verify"
  /\ IF ~req[s].validationResult.isValid
       THEN Send(s, VerifyError(req[s].body, 400, "SIGNATURE_VERIFICATION_FAILED"))
     ELSE Send(s, [kind |-> "verify", status |-> 200, code |-> "ok",
                   body |-> req[s].body,
                   data |-> [isValid |-> TRUE,
                             recoveredSigner |-> req[s].validationResult.recoveredSigner,
                             dataHash |-> Keccak256(Stringify(req[s].body.data))]])
  /\ UNCHANGED <<proc, variant, wallet, votes, clock, dbUp, nreq, created>>

(***************************************************************************)
(* GET /: handleHealthCheck.                                               *)
(***************************************************************************)
ReceiveHealth(s) ==
  /\ FreeSlot(s)
  /\ nreq' = nreq + 1
  /\ req' = [req EXCEPT ![s] =
               [pc |-> "awaitDb", kind |-> "health", stmt |-> [op |-> "ping"]]]
  /\ UNCHANGED <<proc, variant, wallet, votes, clock, dbUp, resp, created>>

\* (mutant) the probe's failure is not looked at
RespondHealthAlways(s) ==
  /\ req[s].pc = "dbDone"
  /\ req[s].kind = "health"
  /\ Send(s, [kind |-> "health", status |-> 200, code |-> "healthy",
              operator |-> wallet.address])
  /\ UNCHANGED <<proc, variant, wallet, votes, clock, dbUp, nreq, created>>

RespondHealth(s) ==
  /\ req[s].pc = "dbDone"
  /\ req[s].kind = "health"
  /\ IF req[s].result.err = "none"
       THEN Send(s, [kind |-> "health", status |-> 200, code |-> "healthy",
                     operator |-> wallet.address])
     ELSE Send(s, [kind |-> "health", status |-> 503, code |-> "unhealthy"])
  /\ UNCHANGED <<proc, variant, wallet, votes, clock, dbUp, nreq, created>>

(***************************************************************************)
(* The requests clients send.                                              *)
(***************************************************************************)
VoteAB == JObj(<< <<"a", JNum(1)>>, <<"b", JNum(2)>> >>)

\* the same logical value as VoteAB, its keys arriving in the other order
VoteBA == JObj(<< <<"b", JNum(2)>>, <<"a", JNum(1)>> >>)

\* {"x": 1e400} as parsed
VoteInf == JObj(<< <<"x", JNonFinite>> >>)

VoteNull == JObj(<< <<"x", JNull>> >>)

VoteArr == JArr(<<JNum(1), JStr("a")>>)

IdOf(data) == Keccak256(Stringify(data))

\* a caller's signature over the id of data
CallerSign(key, data) == SignMessage(key, GetBytes(IdOf(data)))

Body(data, signature, signer) ==
  [data |-> data, signature |-> signature, signer |-> signer]

\* Create requests: a signed vote; the same vote signed by another submitter;
\* the same vote with its keys in the other order, the signer claimed in lower
\* case; a vote with a number out of range, signed over another message; a
\* signer that is not the one who signed; signatures that are malformed or
\* missing; a request without data.
CreateBodies ==
  {Body(VoteAB, CallerSign("alice", VoteAB), NoAddress),
   Body(VoteAB, CallerSign("bob", VoteAB), Address("bob")),
   Body(VoteBA, CallerSign("alice", VoteBA), ToLowerCase(Address("alice"))),
   Body(VoteInf, CallerSign("alice", VoteAB), NoAddress),
   Body(VoteAB, CallerSign("alice", VoteAB), Address("bob")),
   Body(VoteAB, Malformed("shorthex"), NoAddress),
   Body(VoteAB, Malformed("badv"), NoAddress),
   Body(VoteAB, Malformed("nonhex"), NoAddress),
   Body(VoteAB, NoSignature, NoAddress),
   Body(JUndefined, CallerSign("alice", VoteAB), NoAddress)}

\* a well-formed id with its last digit cut off
Chop(id) == SubSeq(id, 1, Len(id) - 1)

\* an id whose last digit is no hex digit
Spoil(id) == [id EXCEPT ![Len(id)] = "g"]

GetIds == {IdOf(VoteAB), IdOf(VoteInf), Chop(IdOf(VoteAB)), Spoil(IdOf(VoteAB))}

Queries == {[limit |-> QInt(1), offset |-> QInt(1)]}

VerifyBodies ==
  {Body(VoteAB, CallerSign("alice", VoteAB), NoAddress),
   Body(VoteAB, CallerSign("alice", VoteAB), Address("bob"))}

\* the requests of the specification that mixes all routes
SomeBodies ==
  {Body(VoteAB, CallerSign("alice", VoteAB), NoAddress),
   Body(VoteAB, CallerSign("bob", VoteAB), Address("bob")),
   Body(VoteInf, CallerSign("alice", VoteAB), NoAddress),
   Body(VoteAB, Malformed("shorthex"), NoAddress)}

(***************************************************************************)
(* The system: requests arrive and are handled concurrently.               *)
(***************************************************************************)
Next ==
  \/ \E s \in Slots, body \in SomeBodies : ReceiveCreate(s, body)
  \/ \E s \in Slots : AfterValidateSignature(s)
  \/ \E s \in Slots : AfterSignMessage(s)
  \/ \E s \in Slots : RespondCreate(s)
  \/ \E s \in Slots, id \in GetIds : ReceiveGet(s, id)
  \/ \E s \in Slots : RespondGet(s)
  \/ \E s \in Slots, query \in Queries : ReceiveList(s, query)
  \/ \E s \in Slots : RespondList(s)
  \/ \E s \in Slots, body \in VerifyBodies : ReceiveVerify(s, body)
  \/ \E s \in Slots : RespondVerify(s)
  \/ \E s \in Slots : ReceiveHealth(s)
  \/ \E s \in Slots : RespondHealth(s)
  \/ \E s \in Slots : DbExecute(s)
  \/ Tick
  \/ DbDown
  \/ DbBack

Spec == Init /\ [][Next]_vars

(***************************************************************************)
(* Create requests alone, with every kind of caller signature and signer.  *)
(***************************************************************************)
NextCreate ==
  \/ \E s \in Slots, body \in CreateBodies : ReceiveCreate(s, body)
  \/ \E s \in Slots : AfterValidateSignature(s)
  \/ \E s \in Slots : AfterSignMessage(s)
  \/ \E s \in Slots : RespondCreate(s)
  \/ \E s \in Slots : DbExecute(s)
  \/ DbDown
  \/ DbBack

SpecCreate == Init /\ [][NextCreate]_vars

(***************************************************************************)
(* Properties.                                                             *)
(***************************************************************************)
\* the digest cut to 24 bits maps no two texts of the model to one id
NoCollision ==
  \A d1, d2 \in {VoteAB, VoteBA, VoteInf, VoteNull, VoteArr} :
    IdOf(d1) = IdOf(d2) => Stringify(d1) = Stringify(d2)

\* the Create requests in a slot whose insert the store has executed and
\* accepted, and that are not answered yet
Winners(id) ==
  {s \in Slots : /\ req[s].pc = "dbDone"
                 /\ req[s].kind = "create"
                 /\ req[s].id = id
                 /\ req[s].result.err = "none"}

Answered201(id) == IF id \in DOMAIN created THEN Len(created[id]) ELSE 0

RowsOf(id) == {r \in votes : r.id = id}

Ids == {IdOf(d) : d \in {VoteAB, VoteBA, VoteInf, VoteNull, VoteArr}}

C2_RecordsImmutable == [][\A r \in votes : r \in votes']_vars

\* a duplicate signed by another submitter was rejected and the record still
\* names its first submitter
C2_Witness ==
  /\ variant = "verifying"
  /\ resp.kind = "create"
  /\ resp.code = "DUPLICATE_VOTE"
  /\ resp.body.signature.key = "bob"
  /\ \E r \in votes : r.id = resp.id /\ r.signer = Address("alice")

\* the requests that inserted the record of an id: those answered 201 and
\* those whose insert the store accepted
InsertedBy(id) ==
  {created[id][i] : i \in 1..Answered201(id)} \cup {req[s].body : s \in Winners(id)}

\* C3: every stored record's id is the hash of its stored data text, that text
\* is the serialization of the request's data, and records (or requests that
\* inserted one) with different texts have different ids.
C3_IdIsHashOfPayload ==
  /\ \A r \in votes :
       /\ r.id = Keccak256(r.data)
       /\ \A body \in InsertedBy(r.id) : r.data = Stringify(body.data)
  /\ \A r1, r2 \in votes : r1.data # r2.data => r1.id # r2.id

\* two records with different texts are stored
C3_Witness ==
  \E r1, r2 \in votes :
    r1.data = Stringify(VoteAB) /\ r2.data = Stringify(VoteBA) /\ r1.id # r2.id

\* C4 as claimed: a Get with the id a Create returned answers data deeply
\* equal to the data of that Create request.
C4_RoundTrip ==
  resp.kind = "get" /\ resp.status = 200 =>
    \A i \in 1..Answered201(resp.data.id) :
      DeepEqual(resp.data.data, created[resp.data.id][i].data)

\* C5: every stored record's signature is a signature over the record's id
\* from which the operator's address is recovered, the address the 201 and
\* health responses report.
C5_OperatorSignatureValid ==
  /\ \A r \in votes :
       VerifyMessage(GetBytes(r.id), r.signature) =
         [threw |-> FALSE, address |-> wallet.address]
  /\ resp.kind = "create" /\ resp.status = 201 =>
       /\ resp.operator = wallet.address
       /\ VerifyMessage(GetBytes(resp.id), resp.signature).address = resp.operator

\* a record submitted by alice is stored with the operator's signature
C5_Witness ==
  \E r \in votes :
    /\ variant = "verifying"
    /\ r.signer = Address("alice")
    /\ r.signature.key = OperatorKey

\* C6 as claimed: two Create requests whose data are the same logical value
\* derive the same id, so they never both insert a record.
C6_KeyOrderIndependent ==
  \A id1, id2 \in Ids :
    \A b1 \in InsertedBy(id1), b2 \in InsertedBy(id2) :
      DeepEqual(b1.data, b2.data) => id1 = id2

\* the caller signature of a request cannot be recovered, or the address
\* recovered from it over the request's id is not the signer the request claims
Unverifiable(body) ==
  LET recovered == VerifyMessage(GetBytes(IdOf(body.data)), body.signature)
  IN /\ SignatureGiven(body.signature)
     /\ \/ recovered.threw
        \/ /\ AddressGiven(body.signer)
           /\ ToLowerCase(recovered.address) # ToLowerCase(body.signer)

\* C7 as claimed: in the verifying server every such Create request fails with
\* INVALID_SIGNATURE.
C7_AsClaimed ==
  variant = "verifying" /\ resp.kind = "create" /\ Unverifiable(resp.body) =>
    resp.code = "INVALID_SIGNATURE"

\* C7 (amended): in the verifying server a Create request whose caller
\* signature cannot be recovered, or whose recovered address differs from the
\* claimed signer, fails with status 400: with the middleware's code
\* (INVALID_SIGNATURE_FORMAT for a signature that is no hex string) when the
\* middleware rejects it, and with INVALID_SIGNATURE otherwise.  The operator
\* never signs its id and it inserts no record.
C7_BadSignatureRejected ==
  variant = "verifying" =>
    /\ resp.kind = "create" /\ Unverifiable(resp.body) =>
         /\ resp.status = 400
         /\ resp.code = IF ValidateVoteData(resp.body) # "next"
                          THEN ValidateVoteData(resp.body)
                        ELSE "INVALID_SIGNATURE"
    /\ \A s \in Slots :
         req[s] # Idle /\ req[s].kind = "create" /\ Unverifiable(req[s].body) =>
           req[s].pc = "awaitValidate"
    /\ \A id \in Ids : \A body \in InsertedBy(id) : ~Unverifiable(body)

\* a request signed by alice and claiming bob is answered INVALID_SIGNATURE
C7_Witness ==
  /\ variant = "verifying"
  /\ resp.kind = "create"
  /\ resp.code = "INVALID_SIGNATURE"
  /\ resp.body.signature.key = "alice"
  /\ resp.body.signer = Address("bob")

\* C8: in the verifying server every stored record's signer is the address
\* recovered from the caller's signature over the record's id, and equals the
\* signer the request claimed, if it claimed one, ignoring case.
C8_SignerIsRecovered ==
  variant = "verifying" =>
    \A r \in votes :
      /\ InsertedBy(r.id) # {}
      /\ \A body \in InsertedBy(r.id) :
           LET recovered == VerifyMessage(GetBytes(r.id), body.signature)
           IN /\ ~recovered.threw
              /\ r.signer = recovered.address
              /\ AddressGiven(body.signer) =>
                   ToLowerCase(r.signer) = ToLowerCase(body.signer)

\* a record whose request claimed its signer in lower case
C8_Witness ==
  /\ variant = "verifying"
  /\ \E r \in votes :
       /\ r.signer = Address("alice")
       /\ \E body \in InsertedBy(r.id) : body.signer = ToLowerCase(Address("alice"))

\* data that passes the payload validation
ValidData(body) == ~Falsy(body.data) /\ TypeofObject(body.data)

MalformedId(id) ==
  \/ Len(id) # 2 + 2 * DigestBytes
  \/ id[1] # "0"
  \/ id[2] # "x"
  \/ \E i \in 3..Len(id) : ~IsHexChar(id[i])

\* C10: a Get whose id is malformed is answered INVALID_ID, and no statement
\* is ever sent to the store for it.
C10_MalformedIdRejected ==
  /\ resp.kind = "get" /\ MalformedId(resp.id) =>
       resp.status = 400 /\ resp.code = "INVALID_ID"
  /\ \A s \in Slots : req[s] # Idle /\ req[s].kind = "get" => ~MalformedId(req[s].id)

\* an id one hex digit short is answered INVALID_ID while records are stored
C10_Witness ==
  /\ resp.kind = "get"
  /\ resp.code = "INVALID_ID"
  /\ Len(resp.id) = 2 * DigestBytes + 1
  /\ votes # {}

(***************************************************************************)
(* Get requests, with every form of id, next to the Create of one vote.    *)
(***************************************************************************)
ToUpperChar(c) ==
  CASE c = "a" -> "A"
    [] c = "b" -> "B"
    [] c = "c" -> "C"
    [] c = "d" -> "D"
    [] c = "e" -> "E"
    [] c = "f" -> "F"
    [] OTHER -> c

\* the id with its hex digits in upper case, the prefix kept
Upper(id) == [i \in 1..Len(id) |-> IF i <= 2 THEN id[i] ELSE ToUpperChar(id[i])]

\* the id with the prefix 0X
UpperPrefix(id) == [id EXCEPT ![2] = "X"]

GetBodies == {Body(VoteAB, CallerSign("alice", VoteAB), NoAddress)}

\* ids of a stored vote, in lower and upper case; of a vote never submitted;
\* ids that are too short, carry a character that is no hex digit, or the
\* prefix 0X; the empty id
AllGetIds ==
  {IdOf(VoteAB), Upper(IdOf(VoteAB)), IdOf(VoteArr), Chop(IdOf(VoteAB)),
   Spoil(IdOf(VoteAB)), UpperPrefix(IdOf(VoteAB)), <<>>}

NextGet ==
  \/ \E s \in Slots, body \in GetBodies : ReceiveCreate(s, body)
  \/ \E s \in Slots : AfterValidateSignature(s)
  \/ \E s \in Slots : AfterSignMessage(s)
  \/ \E s \in Slots : RespondCreate(s)
  \/ \E s \in Slots, id \in AllGetIds : ReceiveGet(s, id)
  \/ \E s \in Slots : RespondGet(s)
  \/ \E s \in Slots : DbExecute(s)
  \/ Tick
  \/ DbDown
  \/ DbBack

SpecGet == Init /\ [][NextGet]_vars

\* the id matches ^0x[0-9a-f]{64}$
LowercaseId(id) ==
  /\ Len(id) = 2 + 2 * DigestBytes
  /\ id[1] = "0"
  /\ id[2] = "x"
  /\ \A i \in 3..Len(id) : id[i] \in {HexDigits[k] : k \in 1..16}

\* C11 as claimed: a Get proceeds to the store lookup only if its id matches
\* ^0x[0-9a-f]{64}$; every other id, one with uppercase hex digits included,
\* is answered INVALID_ID.
C11_LowercaseOnly ==
  /\ resp.kind = "get" /\ ~LowercaseId(resp.id) =>
       resp.status = 400 /\ resp.code = "INVALID_ID"
  /\ \A s \in Slots : req[s] # Idle /\ req[s].kind = "get" => LowercaseId(req[s].id)

\* C12 as claimed: a Get with a well-formed id is answered with the record of
\* five fields (id, data, signature, signer, createdAt) or with VOTE_NOT_FOUND.
C12_AsClaimed ==
  resp.kind = "get" /\ ~MalformedId(resp.id) =>
    /\ resp.status \in {200, 404}
    /\ resp.status = 200 =>
         DOMAIN resp.data = {"id", "data", "signature", "signer", "createdAt"}

\* the rows of the table a lookup of id matches
Matching(table, id) == {r \in table : SameKey(r.id, id)}

\* C12 (amended): the lookup of a well-formed id that the store executes
\* finds the record stored under that id at that moment, and finds nothing
\* exactly when no record is stored under it; Get answers 200 with that
\* record's id, parsed data, signature, createdAt and (signature-verifying
\* server only) signer when the lookup found it, 404 VOTE_NOT_FOUND when it
\* found nothing, and 500 INTERNAL_ERROR when the store failed.
C12_GetReturnsRecord ==
  [][\A s \in Slots :
       /\ req[s].pc = "awaitDb" /\ req[s].kind = "get"
            /\ req'[s].pc = "dbDone" /\ req'[s].result.err = "none" =>
            /\ Cardinality(Matching(votes, req[s].id)) <= 1
            /\ Matching(votes, req[s].id) = {} <=> req'[s].result.rows = <<>>
            /\ \A r \in Matching(votes, req[s].id) :
                 /\ req'[s].result.rows = <<r>>
                 /\ LowercaseId(req[s].id) => r.id = req[s].id
       /\ req[s].pc = "dbDone" /\ req[s].kind = "get" /\ req'[s] = Idle =>
            IF req[s].result.err # "none"
              THEN resp' = GetError(req[s].id, 500, "INTERNAL_ERROR")
            ELSE IF req[s].result.rows = <<>>
              THEN resp' = GetError(req[s].id, 404, "VOTE_NOT_FOUND")
            ELSE LET row == req[s].result.rows[1]
                 IN /\ resp'.status = 200
                    /\ resp'.id = req[s].id
                    /\ resp'.data.id = row.id
                    /\ resp'.data.data = JSONParse(row.data)
                    /\ resp'.data.signature = row.signature
                    /\ resp'.data.createdAt = row.created_at
                    /\ IF variant = "verifying"
                         THEN resp'.data.signer = row.signer
                       ELSE DOMAIN resp'.data = {"id", "data", "signature", "createdAt"}
    ]_vars

\* the record alice submitted is returned with her address as its signer
C12_Witness ==
  /\ variant = "verifying"
  /\ resp.kind = "get"
  /\ resp.status = 200
  /\ resp.id = IdOf(VoteAB)
  /\ resp.data.signer = Address("alice")
  /\ DeepEqual(resp.data.data, VoteAB)

(***************************************************************************)
(* List requests against a table that earlier Create requests filled (the  *)
(* table outlives the server: CREATE TABLE IF NOT EXISTS).  No Create is   *)
(* handled meanwhile, so the table is the same for every List.             *)
(***************************************************************************)
ListDatas == <<VoteAB, VoteBA, VoteArr>>

\* the locals of the Create request that stored data
StoredRequest(data) ==
  [id |-> IdOf(data), dataString |-> Stringify(data),
   operatorSignature |-> SignMessage(OperatorKey, GetBytes(IdOf(data))),
   signerAddress |-> Address("alice")]

\* the table after the first n votes of ListDatas were inserted, the i-th at
\* second times[i]
RECURSIVE StoredTable(_, _)
StoredTable(times, n) ==
  IF n = 0 THEN {}
  ELSE InsertRow(StoredTable(times, n - 1),
                 InsertStatement(StoredRequest(ListDatas[n])).row, times[n]).votes

InitStored ==
  /\ proc = Running
  /\ variant \in Variants
  /\ wallet = NewWallet(OperatorKey)
  /\ \E n \in 0..Len(ListDatas) : \E times \in [1..n -> 0..MaxClock] :
       /\ \A i, j \in 1..n : i < j => times[i] <= times[j]
       /\ votes = StoredTable(times, n)
       /\ clock = IF n = 0 THEN 0 ELSE times[n]
  /\ dbUp = TRUE
  /\ req = [s \in Slots |-> Idle]
  /\ nreq = 0
  /\ resp = NoResponse
  /\ created = <<>>

\* limit absent or not a number, 0, negative, within the range, above it;
\* offset absent or not a number, negative, positive
ListQueries ==
  {[limit |-> NaN, offset |-> NaN],
   [limit |-> QInt(0), offset |-> NaN],
   [limit |-> QInt(-1), offset |-> NaN],
   [limit |-> QInt(101), offset |-> QInt(1)],
   [limit |-> QInt(2), offset |-> QInt(1)],
   [limit |-> QInt(2), offset |-> QInt(-5)]}

NextList ==
  \/ \E s \in Slots, query \in ListQueries : ReceiveList(s, query)
  \/ \E s \in Slots : RespondList(s)
  \/ \E s \in Slots : DbExecute(s)

SpecList == InitStored /\ [][NextList]_vars

\* C13 as claimed: the limit List passes to the store and reports lies in
\* [1, 100] whatever integer the limit parameter is, and is 10 when the
\* parameter is absent or not a number.
C13_LimitClamped ==
  /\ \A s \in Slots :
       req[s] # Idle /\ req[s].kind = "list" =>
         /\ req[s].stmt.limit \in 1..MaxLimit
         /\ req[s].query.limit = NaN => req[s].stmt.limit = DefaultLimit
  /\ resp.kind = "list" /\ resp.status = 200 =>
       /\ resp.pagination.limit \in 1..MaxLimit
       /\ resp.query.limit = NaN => resp.pagination.limit = DefaultLimit

\* C14 as claimed: the offset List passes to the store and reports is >= 0
\* whatever integer the offset parameter is, and is 0 when the parameter is
\* absent or not a number.
C14_OffsetClamped ==
  /\ \A s \in Slots :
       req[s] # Idle /\ req[s].kind = "list" =>
         /\ req[s].stmt.offset >= 0
         /\ req[s].query.offset = NaN => req[s].stmt.offset = 0
  /\ resp.kind = "list" /\ resp.status = 200 =>
       /\ resp.pagination.offset >= 0
       /\ resp.query.offset = NaN => resp.pagination.offset = 0

Max(a, b) == IF a > b THEN a ELSE b

\* rows is a page of table: at most limit entries after the first offset, in
\* descending created_at order, each the id and created_at of one stored row
IsPage(rows, table, limit, offset) ==
  LET n == Cardinality(table)
      k == Len(rows)
  IN /\ k = Max(0, Min(limit, n - offset))
     /\ \A i \in 1..k :
          /\ DOMAIN rows[i] = {"id", "created_at"}
          /\ \E r \in table : r.id = rows[i].id /\ r.created_at = rows[i].created_at
     /\ \A i, j \in 1..k :
          i < j => rows[i].id # rows[j].id /\ rows[i].created_at >= rows[j].created_at
     /\ k > 0 =>
          /\ Cardinality({r \in table : r.created_at > rows[1].created_at}) <= offset
          /\ Cardinality({r \in table : r.created_at < rows[k].created_at})
               <= n - offset - k

\* C15: the page the store returns to a List holds the id and created_at of
\* at most limit stored records, in descending created_at order, after the
\* first offset records of that order; a successful List answers with exactly
\* that page, and pagination reports the limit and offset passed to the store
\* and the number of items as count.
C15_PageOfDescendingOrder ==
  [][\A s \in Slots :
       /\ req[s].pc = "awaitDb" /\ req[s].kind = "list"
            /\ req'[s].pc = "dbDone" /\ req'[s].result.err = "none" =>
            IsPage(req'[s].result.rows, votes, req[s].stmt.limit, req[s].stmt.offset)
       /\ req[s].pc = "dbDone" /\ req[s].kind = "list" /\ req'[s] = Idle
            /\ req[s].result.err = "none" =>
            /\ resp'.status = 200
            /\ resp'.data = req[s].result.rows
            /\ resp'.pagination =
                 [limit |-> req[s].stmt.limit, offset |-> req[s].stmt.offset,
                  count |-> Len(resp'.data)]
    ]_vars

\* of three stored records the newest is skipped and the two others are
\* returned, the newer one first
C15_Witness ==
  /\ resp.kind = "list"
  /\ resp.status = 200
  /\ resp.pagination = [limit |-> 2, offset |-> 1, count |-> 2]
  /\ resp.data[1].created_at > resp.data[2].created_at
  /\ Cardinality(votes) = 3

\* the ids of a page, in order
PageIds(rows) == [i \in 1..Len(rows) |-> rows[i].id]

\* C16 as claimed: no Create being handled, two List requests with the same
\* limit and offset receive the same sequence of ids, also when stored
\* records share a created_at.
C16_ListIdempotent ==
  \A s \in Slots :
    req[s].pc = "dbDone" /\ req[s].kind = "list" /\ req[s].result.err = "none" =>
      /\ \A t \in Slots :
           /\ req[t].pc = "dbDone" /\ req[t].kind = "list"
           /\ req[t].result.err = "none"
           /\ req[t].stmt = req[s].stmt
           => PageIds(req[t].result.rows) = PageIds(req[s].result.rows)
      /\ /\ resp.kind = "list" /\ resp.status = 200
         /\ resp.pagination.limit = req[s].stmt.limit
         /\ resp.pagination.offset = req[s].stmt.offset
         => PageIds(resp.data) = PageIds(req[s].result.rows)

(***************************************************************************)
(* Create requests with every kind of data value, each signed by its       *)
(* caller over the id of that data.                                        *)
(***************************************************************************)
\* an object whose serialized text is longer than MaxDataLength
VoteLong == JObj(<< <<"a", JStr("long")>> >>)

ValidateDatas ==
  {JUndefined, JNull, JNum(0), JNum(1), JStr(""), JStr("a"), JBool(FALSE),
   JBool(TRUE), JArr(<<>>), VoteArr, VoteAB, VoteLong}

ValidateBodies == {Body(d, CallerSign("alice", d), NoAddress) : d \in ValidateDatas}

NextValidate ==
  \/ \E s \in Slots, body \in ValidateBodies : ReceiveCreate(s, body)
  \/ \E s \in Slots : AfterValidateSignature(s)
  \/ \E s \in Slots : AfterSignMessage(s)
  \/ \E s \in Slots : RespondCreate(s)
  \/ \E s \in Slots : DbExecute(s)

SpecValidate == Init /\ [][NextValidate]_vars

Scalar(v) == v.t \in {"string", "number", "boolean", "nonfinite"}

Structured(v) == v.t \in {"object", "array"}

\* C17 as claimed: absent or null data is answered MISSING_DATA, every scalar
\* (0, false and the empty string included) INVALID_DATA_TYPE, an object or
\* array with neither code; only requests whose data is an object or array
\* are signed or stored.
C17_PayloadValidation ==
  /\ resp.kind = "create" =>
       /\ resp.body.data.t \in {"undefined", "null"} => resp.code = "MISSING_DATA"
       /\ Scalar(resp.body.data) => resp.code = "INVALID_DATA_TYPE"
       /\ Structured(resp.body.data) =>
            resp.code \notin {"MISSING_DATA", "INVALID_DATA_TYPE"}
  /\ \A s \in Slots :
       req[s] # Idle /\ req[s].kind = "create" => Structured(req[s].body.data)

\* the serialized data is longer than 1,000,000
TooLarge(data) == TextLength(Stringify(data), 1) > MaxDataLength

\* C18 as claimed: in both servers a Create request whose serialized data is
\* longer than 1,000,000 is answered DATA_TOO_LARGE, and it is never signed
\* or stored.
C18_TooLargeRejected ==
  /\ resp.kind = "create" /\ TooLarge(resp.body.data) =>
       resp.status = 400 /\ resp.code = "DATA_TOO_LARGE"
  /\ \A s \in Slots :
       req[s] # Idle /\ req[s].kind = "create" => ~TooLarge(req[s].body.data)
  /\ \A r \in votes : TextLength(r.data, 1) <= MaxDataLength

\* the codes of the store driver's errors
DriverCodes == {"ER_DUP_ENTRY", "ECONNREFUSED", "ER_WRONG_ARGUMENTS", "ER_NO_SUCH_TABLE"}

AllVerifyBodies ==
  {Body(VoteAB, CallerSign("alice", VoteAB), NoAddress),
   Body(VoteAB, CallerSign("alice", VoteAB), Address("alice")),
   Body(VoteAB, CallerSign("alice", VoteAB), ToLowerCase(Address("alice"))),
   Body(VoteAB, CallerSign("alice", VoteAB), Address("bob")),
   Body(VoteAB, CallerSign("bob", VoteAB), ToLowerCase(Address("bob"))),
   Body(VoteAB, CallerSign("alice", VoteBA), NoAddress),
   Body(VoteAB, CallerSign("alice", VoteBA), Address("alice")),
   Body(VoteAB, Malformed("shorthex"), NoAddress),
   Body(VoteAB, Malformed("badv"), Address("alice")),
   Body(VoteAB, Malformed("nonhex"), NoAddress),
   Body(VoteAB, CallerSign("alice", VoteAB), BadAddress),
   Body(VoteAB, NoSignature, NoAddress),
   Body(VoteInf, CallerSign("alice", VoteInf), Address("alice"))}

NextVerify ==
  \/ \E s \in Slots, body \in AllVerifyBodies : ReceiveVerify(s, body)
  \/ \E s \in Slots : RespondVerify(s)

SpecVerify == Init /\ [][NextVerify]_vars

SignerMismatch == "Signature does not match expected signer"

\* C20: the result of validateSignature for a request names a signer
\* mismatch, and is then invalid, exactly when the signature is recoverable,
\* an expected signer is given and it differs from the recovered address
\* ignoring case; with no expected signer a recoverable signature is valid
\* and the result carries the recovered address; a signature made by key K
\* over the id of the data, with K's address expected in either case, is
\* valid.  The response is 200 with the recovered address exactly for the
\* valid results.
C20_SignerMismatch ==
  /\ \A s \in Slots :
       req[s].pc = "awaitValidate" =>
         LET body == req[s].body
             result == req[s].validationResult
             recovered == VerifyMessage(GetBytes(IdOf(body.data)), body.signature)
         IN /\ result.error = SignerMismatch <=>
                 /\ ~recovered.threw
                 /\ AddressGiven(body.signer)
                 /\ ToLowerCase(recovered.address) # ToLowerCase(body.signer)
            /\ result.error = SignerMismatch =>
                 ~result.isValid /\ result.recoveredSigner = recovered.address
            /\ ~AddressGiven(body.signer) /\ ~recovered.threw =>
                 result.isValid /\ result.recoveredSigner = recovered.address
            /\ \A key \in CallerKeys :
                 /\ body.signature = CallerSign(key, body.data)
                 /\ ToLowerCase(body.signer) = ToLowerCase(Address(key))
                 => result.isValid /\ result.recoveredSigner = Address(key)
  /\ resp.kind = "verify" /\ resp.status = 200 =>
       /\ ValidateSignature(resp.body.data, resp.body.signature, resp.body.signer).isValid
       /\ resp.data.recoveredSigner =
            VerifyMessage(GetBytes(IdOf(resp.body.data)), resp.body.signature).address
  /\ resp.kind = "verify" /\ resp.code = "SIGNATURE_VERIFICATION_FAILED" =>
       ~ValidateSignature(resp.body.data, resp.body.signature, resp.body.signer).isValid

\* alice's signature was verified against her address written in lower case
C20_Witness ==
  /\ resp.kind = "verify"
  /\ resp.status = 200
  /\ resp.body.signer = ToLowerCase(Address("alice"))
  /\ resp.data.recoveredSigner = Address("alice")
  /\ \E s \in Slots :
       /\ req[s].pc = "awaitValidate"
       /\ req[s].validationResult.error = SignerMismatch

(***************************************************************************)
(* Create and Verify requests of the signature-verifying server over the   *)
(* same bodies.                                                            *)
(***************************************************************************)
NextAgree ==
  \/ \E s \in Slots, body \in AllVerifyBodies : ReceiveCreate(s, body)
  \/ \E s \in Slots : AfterValidateSignature(s)
  \/ \E s \in Slots : AfterSignMessage(s)
  \/ \E s \in Slots : RespondCreate(s)
  \/ \E s \in Slots : DbExecute(s)
  \/ \E s \in Slots, body \in AllVerifyBodies : ReceiveVerify(s, body)
  \/ \E s \in Slots : RespondVerify(s)

SpecAgree == Init /\ [][NextAgree]_vars

\* a signature given as a string that is no well-formed recoverable 65-byte
\* signature: not hex, of the wrong length, or with an unrecoverable v
MalformedSignature(sig) == sig.form \in {"nonhex", "shorthex", "badv"}

\* C21 as claimed: in the signature-verifying server a Create or Verify
\* request whose signature is malformed in any of the three ways is answered
\* INVALID_SIGNATURE_FORMAT.
C21_MalformedSignatureFormat ==
  /\ variant = "verifying"
  /\ resp.kind \in {"create", "verify"}
  /\ ValidData(resp.body)
  /\ MalformedSignature(resp.body.signature)
  => resp.code = "INVALID_SIGNATURE_FORMAT"

(***************************************************************************)
(* All five routes, each with requests that pass and requests that fail:   *)
(* data that fails validation, a signer mismatch, a resubmitted vote, an   *)
(* id that is malformed or not stored, a missing signature, a store that   *)
(* is unreachable.                                                         *)
(***************************************************************************)
RouteBodies ==
  {Body(VoteAB, CallerSign("alice", VoteAB), NoAddress),
   Body(VoteAB, CallerSign("alice", VoteAB), Address("bob")),
   Body(JUndefined, CallerSign("alice", VoteAB), NoAddress)}

RouteIds == {IdOf(VoteAB), Chop(IdOf(VoteAB))}

RouteVerifyBodies ==
  {Body(VoteAB, CallerSign("alice", VoteAB), NoAddress),
   Body(VoteAB, CallerSign("alice", VoteAB), Address("bob")),
   Body(VoteAB, NoSignature, NoAddress)}

NextRoutes ==
  \/ \E s \in Slots, body \in RouteBodies : ReceiveCreate(s, body)
  \/ \E s \in Slots : AfterValidateSignature(s)
  \/ \E s \in Slots : AfterSignMessage(s)
  \/ \E s \in Slots : RespondCreate(s)
  \/ \E s \in Slots, id \in RouteIds : ReceiveGet(s, id)
  \/ \E s \in Slots : RespondGet(s)
  \/ \E s \in Slots, query \in Queries : ReceiveList(s, query)
  \/ \E s \in Slots : RespondList(s)
  \/ \E s \in Slots, body \in RouteVerifyBodies : ReceiveVerify(s, body)
  \/ \E s \in Slots : RespondVerify(s)
  \/ \E s \in Slots : ReceiveHealth(s)
  \/ \E s \in Slots : RespondHealth(s)
  \/ \E s \in Slots : DbExecute(s)
  \/ DbDown
  \/ DbBack

SpecRoutes == Init /\ [][NextRoutes]_vars

\* the routes that only read
ReadOnlyKinds == {"get", "list", "verify", "health"}

\* C22: a step of a Verify, Get, List or health request (its receipt, the
\* store's execution of its statement, its response, with success or with
\* an error) leaves the set of stored records as it was.
C22_ReadsLeaveStore ==
  [][(\/ \E s \in Slots :
           /\ req'[s] # req[s]
           /\ \/ req[s] # Idle /\ req[s].kind \in ReadOnlyKinds
              \/ req'[s] # Idle /\ req'[s].kind \in ReadOnlyKinds
      \/ nreq' = nreq + 1 /\ req' = req /\ resp'.kind \in ReadOnlyKinds)
     => votes' = votes]_vars

\* a stored vote was read by a Get while the store holds it
C22_Witness ==
  /\ resp.kind = "get"
  /\ resp.status = 200
  /\ \E r \in votes : r.id = resp.data.id /\ r.signature = resp.data.signature

(***************************************************************************)
(* Start-up: the module's top level runs the constructor and start() in    *)
(* one synchronous stretch.  initializeDatabase is an async function the   *)
(* constructor does not await: it runs to its await of createTables and    *)
(* continues when the store has answered CREATE TABLE IF NOT EXISTS.       *)
(***************************************************************************)
\* OPERATOR_PRIVATE_KEY: a 32-byte key, unset, or text that is no key
EnvKeys == {OperatorKey, "missing", "malformed"}

\* this.wallet = null
NoWallet == [privateKey |-> "none", address |-> NoAddress]

InitBoot ==
  /\ proc \in [pc : {"loading"}, privateKey : EnvKeys, init : {"none"},
               table : BOOLEAN]
  /\ variant \in Variants
  /\ wallet = NoWallet
  /\ votes = {}
  /\ clock = 0
  /\ dbUp = TRUE
  /\ req = [s \in Slots |-> Idle]
  /\ nreq = 0
  /\ resp = NoResponse
  /\ created = <<>>

\* (mutant) initializeWallet logs the error and returns
ConstructLenient ==
  /\ proc.pc = "loading"
  /\ IF proc.privateKey = "missing"
       THEN proc' = [proc EXCEPT !.pc = "exited"] /\ wallet' = wallet
     ELSE IF proc.privateKey = "malformed"
       THEN proc' = [proc EXCEPT !.pc = "listening", !.init = "pending"]
            /\ wallet' = wallet
     ELSE /\ proc' = [proc EXCEPT !.pc = "listening", !.init = "pending"]
          /\ wallet' = NewWallet(proc.privateKey)
  /\ UNCHANGED <<variant, votes, clock, dbUp, req, nreq, resp, created>>

\* new VoteOperatorServer(); server.start(): validateEnvironment exits when
\* the key is unset; createTables is issued; initializeWallet exits when
\* new ethers.Wallet throws; app.listen
Construct ==
  /\ proc.pc = "loading"
  /\ IF proc.privateKey = "missing"
       THEN proc' = [proc EXCEPT !.pc = "exited"] /\ wallet' = wallet
     ELSE IF proc.privateKey = "malformed"
       THEN proc' = [proc EXCEPT !.pc = "exited", !.init = "pending"]
            /\ wallet' = wallet
     ELSE /\ proc' = [proc EXCEPT !.pc = "listening", !.init = "pending"]
          /\ wallet' = NewWallet(proc.privateKey)
  /\ UNCHANGED <<variant, votes, clock, dbUp, req, nreq, resp, created>>

\* initializeDatabase after await this.createTables(): the table exists, or
\* the catch branch ends the process with the requests it was handling
CreateTablesDone ==
  /\ proc.pc = "listening"
  /\ proc.init = "pending"
  /\ IF dbUp
       THEN /\ proc' = [proc EXCEPT !.init = "done", !.table = TRUE]
            /\ req' = req
     ELSE /\ proc' = [proc EXCEPT !.pc = "exited", !.init = "failed"]
          /\ req' = [s \in Slots |-> Idle]
  /\ UNCHANGED <<variant, wallet, votes, clock, dbUp, nreq, resp, created>>

NextBoot ==
  \/ Construct
  \/ CreateTablesDone
  \/ \E s \in Slots, body \in GetBodies : ReceiveCreate(s, body)
  \/ \E s \in Slots : AfterValidateSignature(s)
  \/ \E s \in Slots : AfterSignMessage(s)
  \/ \E s \in Slots : RespondCreate(s)
  \/ \E s \in Slots, id \in RouteIds : ReceiveGet(s, id)
  \/ \E s \in Slots : RespondGet(s)
  \/ \E s \in Slots : ReceiveHealth(s)
  \/ \E s \in Slots : RespondHealth(s)
  \/ \E s \in Slots : DbExecute(s)
  \/ DbDown
  \/ DbBack

SpecBoot == InitBoot /\ [][NextBoot]_vars

\* C23: with the operator key unset or malformed the process never listens
\* and receives no request; while it listens, and while any request is being
\* handled, the wallet is the one made from the configured valid key, every
\* operator signature is made with that key, and once set the wallet never
\* changes.
C23_NoServiceWithoutKey ==
  [][/\ proc'.privateKey = proc.privateKey
     /\ proc'.privateKey # OperatorKey =>
          proc'.pc # "listening" /\ nreq' = 0 /\ wallet' = NoWallet
     /\ proc'.pc = "listening" => wallet' = NewWallet(OperatorKey)
     /\ \A s \in Slots :
          req'[s] # Idle =>
            /\ wallet' = NewWallet(OperatorKey)
            /\ req'[s].pc \in {"awaitSign", "awaitDb", "dbDone"}
                 /\ req'[s].kind = "create" =>
                 req'[s].operatorSignature.key = OperatorKey
     /\ wallet # NoWallet => wallet' = wallet
    ]_vars

\* the process has exited on a malformed key, no wallet made
C23_Witness ==
  /\ proc.pc = "exited"
  /\ proc.privateKey = "malformed"
  /\ wallet = NoWallet
  /\ nreq = 0

\* C29 as claimed: the server listens and handles requests only after
\* initializeDatabase has finished.
C29_ListenAfterInit ==
  /\ proc.pc = "listening" => proc.init = "done"
  /\ \A s \in Slots : req[s] # Idle => proc.init = "done"

(***************************************************************************)
(* A store that may leave a statement unanswered.  The only bound on a     *)
(* request is req.setTimeout(REQUEST_TIMEOUT) of initializeMiddleware: no  *)
(* listener is given, so when the socket has been idle that long Node      *)
(* destroys it, and the caller's connection closes without a response.     *)
(***************************************************************************)
SocketTimeout(s) ==
  /\ req[s].pc = "awaitDb"
  /\ req' = [req EXCEPT ![s] = Idle]
  /\ UNCHANGED <<proc, variant, wallet, votes, clock, dbUp, nreq, resp, created>>

NextHang ==
  \/ \E s \in Slots, body \in GetBodies : ReceiveCreate(s, body)
  \/ \E s \in Slots : AfterValidateSignature(s)
  \/ \E s \in Slots : AfterSignMessage(s)
  \/ \E s \in Slots : RespondCreate(s)
  \/ \E s \in Slots, id \in RouteIds : ReceiveGet(s, id)
  \/ \E s \in Slots : RespondGet(s)
  \/ \E s \in Slots, query \in Queries : ReceiveList(s, query)
  \/ \E s \in Slots : RespondList(s)
  \/ \E s \in Slots : DbExecute(s)
  \/ \E s \in Slots : SocketTimeout(s)

\* the handlers' own steps and the socket timer always run; the store need
\* not answer
SpecHang ==
  /\ Init
  /\ [][NextHang]_vars
  /\ \A s \in Slots :
       /\ WF_vars(AfterValidateSignature(s))
       /\ WF_vars(AfterSignMessage(s))
       /\ WF_vars(RespondCreate(s) \/ RespondGet(s) \/ RespondList(s))
       /\ WF_vars(SocketTimeout(s))

\* the statuses of a timeout response
TimeoutStatuses == {408, 503, 504}

\* C24 as claimed: a Create, Get or List request that waits for the store
\* is eventually answered by the store or, when the store never answers,
\* the caller is sent a timeout error response.
C24_NoRequestHangs ==
  \A s \in Slots :
    (req[s].pc = "awaitDb") ~>
      \/ req[s].pc = "dbDone"
      \/ resp.kind \in {"create", "get", "list"} /\ resp.status \in TimeoutStatuses

\* C25: the probe of a health check succeeds exactly when the store is
\* reachable as the store executes it; the health check answers 503
\* unhealthy when its probe failed and 200 healthy with the operator's
\* address when it succeeded, so every health check probed while the store
\* is unavailable reports unhealthy.
C25_HealthReflectsStore ==
  [][\A s \in Slots :
       /\ req[s].pc = "awaitDb" /\ req[s].kind = "health" /\ req'[s].pc = "dbDone" =>
            (req'[s].result.err = "none" <=> dbUp)
       /\ req[s].pc = "dbDone" /\ req[s].kind = "health" /\ req'[s] = Idle
            /\ proc' = proc =>
            IF req[s].result.err = "none"
              THEN resp' = [kind |-> "health", status |-> 200, code |-> "healthy",
                            operator |-> Address(proc.privateKey)]
            ELSE resp' = [kind |-> "health", status |-> 503, code |-> "unhealthy"]
    ]_vars

\* a health check reported unhealthy and the store is still unavailable
C25_Witness ==
  /\ resp.kind = "health"
  /\ resp.status = 503
  /\ ~dbUp
  /\ proc.pc = "listening"

\* C26: a Create request is signed by the operator only after its data was
\* validated, its id derived and (signature-verifying server) its caller's
\* signature verified, and inserted only with the operator's signature over
\* that id; when 'created' is answered the record with that id is in the
\* store, and the id, signature and signer of the response are those of the
\* record, which are what a Get of that id returns.
C26_CreatedAfterStored ==
  /\ \A s \in Slots :
       req[s] # Idle /\ req[s].kind = "create" =>
         /\ ValidateVoteData(req[s].body) = "next"
         /\ req[s].id = Keccak256(Stringify(req[s].body.data))
         /\ req[s].pc \in {"awaitSign", "awaitDb", "dbDone"} =>
              /\ variant = "verifying" => req[s].validationResult.isValid
              /\ req[s].operatorSignature = SignMessage(OperatorKey, GetBytes(req[s].id))
         /\ req[s].pc \in {"awaitDb", "dbDone"} =>
              /\ req[s].stmt.row.id = req[s].id
              /\ req[s].stmt.row.signature = req[s].operatorSignature
  /\ resp.kind = "create" /\ resp.status = 201 =>
       \E r \in votes :
         /\ r.id = resp.id
         /\ r.signature = resp.signature
         /\ variant = "verifying" => r.signer = resp.signer
         /\ \A s \in Slots :
              /\ req[s].pc = "dbDone" /\ req[s].kind = "get"
              /\ req[s].result.err = "none" /\ req[s].result.rows # <<>>
              /\ SameKey(req[s].id, resp.id)
              => LET got == VoteResponse(req[s].id, req[s].result.rows[1]).data
                 IN /\ got.id = resp.id
                    /\ got.signature = resp.signature
                    /\ variant = "verifying" => got.signer = resp.signer

\* 'created' was answered and a later Get of the id has read the record
C26_Witness ==
  /\ variant = "verifying"
  /\ resp.kind = "create"
  /\ resp.status = 201
  /\ \E s \in Slots :
       /\ req[s].pc = "dbDone" /\ req[s].kind = "get"
       /\ req[s].result.err = "none" /\ req[s].result.rows # <<>>
       /\ req[s].id = resp.id

(***************************************************************************)
(* C27: Create and the store.                                              *)
(***************************************************************************)
RECURSIVE SumAnswered201(_)
SumAnswered201(S) ==
  IF S = {} THEN 0
  ELSE LET id == CHOOSE x \in S : TRUE
       IN Answered201(id) + SumAnswered201(S \ {id})

\* the number of 'created' responses issued
CreatedCount == SumAnswered201(DOMAIN created)

\* the Create requests whose insert the store accepted and that are not
\* answered yet
Unanswered ==
  {s \in Slots : /\ req[s].pc = "dbDone"
                 /\ req[s].kind = "create"
                 /\ req[s].result.err = "none"}

PassedCodes == {"created", "DUPLICATE_VOTE", "INTERNAL_ERROR"}

\* the Create request of slot s has passed the signature check
PassedCheck(s) ==
  /\ req[s] # Idle
  /\ req[s].kind = "create"
  /\ req[s].pc \in {"awaitSign", "awaitDb", "dbDone"}

\* C28: on the signature-verifying server, for the same data, signature and
\* signer, VerifySignature and Create come to the same validation result;
\* VerifySignature answers 200 exactly when Create's signature check passes;
\* the recoveredSigner of that answer is the signer Create stores and
\* returns, and its dataHash is the id Create derives.
C28_VerifyAgreesWithCreate ==
  [][/\ \A s, t \in Slots :
          /\ req[s] # Idle /\ req[s].kind = "create"
          /\ req[t] # Idle /\ req[t].kind = "verify"
          /\ req[s].body = req[t].body
          =>
          /\ req[s].pc = "awaitValidate" =>
               req[s].validationResult = req[t].validationResult
          /\ PassedCheck(s) =>
               /\ req[t].validationResult.isValid
               /\ req[t].validationResult.recoveredSigner = req[s].signerAddress
          /\ req'[t] = Idle =>
               /\ resp'.kind = "verify"
               /\ resp'.status = 200 <=>
                    \/ PassedCheck(s)
                    \/ req[s].pc = "awaitValidate" /\ req[s].validationResult.isValid
               /\ resp'.status = 200 =>
                    /\ resp'.data.dataHash = req[s].id
                    /\ PassedCheck(s) =>
                         resp'.data.recoveredSigner = req[s].signerAddress
          /\ req'[s] = Idle =>
               /\ resp'.kind = "create"
               /\ resp'.code \in PassedCodes <=> req[t].validationResult.isValid
               /\ resp'.code = "created" =>
                    /\ resp'.id = Keccak256(Stringify(req[t].body.data))
                    /\ resp'.signer = req[t].validationResult.recoveredSigner
     /\ resp' # resp /\ resp.kind \in {"create", "verify"}
          /\ resp'.kind \in {"create", "verify"} /\ resp'.kind # resp.kind
          /\ resp'.body = resp.body =>
          LET v == IF resp.kind = "verify" THEN resp ELSE resp'
              c == IF resp.kind = "create" THEN resp ELSE resp'
          IN /\ v.status = 200 <=> c.code \in PassedCodes
             /\ v.status = 200 /\ c.code \in PassedCodes => v.data.dataHash = c.id
             /\ v.status = 200 /\ c.code = "created" =>
                  v.data.recoveredSigner = c.signer
    ]_vars

\* VerifySignature answered 200 for a signature with its signer's address in
\* lower case while the Create request with the same body has its record
\* inserted, the recovered signer stored
C28_Witness ==
  /\ resp.kind = "verify"
  /\ resp.status = 200
  /\ resp.body.signer = ToLowerCase(Address("alice"))
  /\ \E s \in Slots :
       /\ req[s].pc = "dbDone" /\ req[s].kind = "create"
       /\ req[s].body = resp.body
       /\ req[s].result.err = "none"
       /\ \E r \in votes : r.id = resp.data.dataHash
                            /\ r.signer = resp.data.recoveredSigner

(***************************************************************************)
(* C30: one response per request.                                          *)
(***************************************************************************)
\* the statuses the handlers and the middleware send
SentStatuses == {200, 201, 400, 404, 409, 500, 503}

\* event is a response to the request r
Answers(r, event) ==
  /\ event.kind = r.kind
  /\ event.status \in SentStatuses
  /\ r.kind \in {"create", "verify"} => event.body = r.body
  /\ r.kind = "get" => event.id = r.id
  /\ r.kind = "list" => event.query = r.query

\* the slots whose request ends with the step
Ended == {s \in Slots : req[s] # Idle /\ req'[s] = Idle}

\* the slots a request starts in with the step
Started == {s \in Slots : req[s] = Idle /\ req'[s] # Idle}

\* C30: every Create, Get, List, VerifySignature and health request is
\* answered exactly once on every path of its handler: a request rejected at
\* receipt (validation, missing signature, malformed id) is answered in that
\* step and occupies no handler further; a request that awaits the signature
\* check, the operator's signature or the store sends nothing until the step
\* that ends it, and that step sends one response to this request, whether
\* the outcome is success, a signature failure, a duplicate or a store error.
C30_OneResponsePerRequest ==
  [][/\ Cardinality(Ended) <= 1
     /\ \A s \in Ended : Answers(req[s], resp') /\ nreq' = nreq
     /\ Ended = {} /\ nreq' = nreq => resp' = resp
     /\ nreq' # nreq =>
          /\ nreq' = nreq + 1
          /\ Ended = {}
          /\ IF Started # {}
               THEN Cardinality(Started) = 1 /\ resp' = resp
             ELSE /\ req' = req
                  /\ resp'.kind \in {"create", "get", "verify"}
                  /\ resp'.status = 400
    ]_vars

\* every request received was answered and no handler is running; the last
\* answer is DUPLICATE_VOTE to a resubmitted vote
C30_Witness ==
  /\ nreq = MaxRequests
  /\ \A s \in Slots : req[s] = Idle
  /\ resp.kind = "create"
  /\ resp.status = 409
  /\ \E id \in DOMAIN created : created[id] = <<resp.body>>

====
